---- MODULE Spec2Model ----
(***************************************************************************)
(* A model of the nom-based JSON parser of src/main.rs.                    *)
(*                                                                         *)
(* Text is a sequence of one-character strings.  A recognizer is a value   *)
(* (a parser expression built by the combinators tag, map, alt, tuple,     *)
(* delimited, separated_list0, ws ...) and `parse` applies such an         *)
(* expression to a text, the way nom applies the closure the combinator    *)
(* returns.  A result is Ok (remaining text, output), Error (the text the  *)
(* error was raised at, the nom ErrorKind) or Panic (a Rust panic          *)
(* unwinding through the parse call).  Every result also carries the list  *)
(* of calls of the named functions of main.rs made while producing it.     *)
(***************************************************************************)
EXTENDS Integers, Sequences, FiniteSets, TLC

VARIABLES gen, input, pc, out

vars == <<gen, input, pc, out>>

----------------------------------------------------------------------------
(* Characters *)

QUOTE == "\""

Digits == <<"0", "1", "2", "3", "4", "5", "6", "7", "8", "9">>

IsDigit(c) == \E i \in 1..10 : Digits[i] = c

DigitVal(c) == (CHOOSE i \in 1..10 : Digits[i] = c) - 1

\* nom character::complete::multispace0 accepts space, tab, CR and LF
Whitespace == {" ", "\t", "\r", "\n"}

IsSpace(c) == c \in Whitespace

Drop(s, n) == SubSeq(s, n + 1, Len(s))

Take(s, n) == SubSeq(s, 1, n)

\* length of the longest prefix of s whose characters all satisfy the test
RECURSIVE SpanDigits(_)
SpanDigits(s) ==
    IF s = <<>> \/ ~IsDigit(Head(s)) THEN 0 ELSE 1 + SpanDigits(Tail(s))

RECURSIVE SpanSpace(_)
SpanSpace(s) ==
    IF s = <<>> \/ ~IsSpace(Head(s)) THEN 0 ELSE 1 + SpanSpace(Tail(s))

RECURSIVE SpanUntil(_, _)
SpanUntil(s, stop) ==
    IF s = <<>> \/ Head(s) = stop THEN 0 ELSE 1 + SpanUntil(Tail(s), stop)

----------------------------------------------------------------------------
(* The Json enum *)

Null == [t |-> "Null"]

Bool(b) == [t |-> "Bool", b |-> b]

Number(n) == [t |-> "Number", n |-> n]

String(s) == [t |-> "String", s |-> s]

Array(v) == [t |-> "Array", items |-> v]

Object(v) == [t |-> "Object", members |-> v]

----------------------------------------------------------------------------
(* u64 and str::parse::<u64>.  A u64 is kept as its decimal digits without *)
(* leading zeros, so that the full 64-bit range is represented exactly.    *)

U64Max == <<"1", "8", "4", "4", "6", "7", "4", "4", "0", "7",
            "3", "7", "0", "9", "5", "5", "1", "6", "1", "5">>

RECURSIVE StripZeros(_)
StripZeros(s) ==
    IF Len(s) > 1 /\ Head(s) = "0" THEN StripZeros(Tail(s)) ELSE s

\* a <= b for digit sequences of the same length
RECURSIVE DigitsLeq(_, _)
DigitsLeq(a, b) ==
    IF a = <<>> THEN TRUE
    ELSE IF DigitVal(Head(a)) < DigitVal(Head(b)) THEN TRUE
    ELSE IF DigitVal(Head(a)) > DigitVal(Head(b)) THEN FALSE
    ELSE DigitsLeq(Tail(a), Tail(b))

FitsU64(s) ==
    LET d == StripZeros(s)
    IN  \/ Len(d) < Len(U64Max)
        \/ Len(d) = Len(U64Max) /\ DigitsLeq(d, U64Max)

\* s.parse::<u64>(): Ok(value) or Err(PosOverflow); s is a non-empty digit run
parse_u64(s) ==
    IF FitsU64(s) THEN [ok |-> TRUE, n |-> StripZeros(s)]
    ELSE [ok |-> FALSE, n |-> <<>>]

----------------------------------------------------------------------------
(* Results: IResult<&str, O>, or a panic *)

NoVal == [t |-> "None"]

Ok(rest, val, log) ==
    [st |-> "Ok", rest |-> rest, val |-> val, code |-> "", log |-> log]

Error(at, code, log) ==
    [st |-> "Error", rest |-> at, val |-> NoVal, code |-> code, log |-> log]

Panic(log) ==
    [st |-> "Panic", rest |-> <<>>, val |-> NoVal, code |-> "", log |-> log]

\* the result r, reached after the calls of l
After(l, r) == [r EXCEPT !.log = l \o @]

\* an `or` that keeps the earlier error
ErrorOr_first(e1, e2) == e1

\* nom::error::ParseError::or for nom::error::Error: the later error wins
ErrorOr(e1, e2) == e2

----------------------------------------------------------------------------
(* Parser expressions: the nom combinators used by main.rs *)

tag(t) == [op |-> "tag", lit |-> t]

take_till(stop) == [op |-> "take_till", stop |-> stop]

digit1 == [op |-> "digit1"]

multispace0 == [op |-> "multispace0"]

eof == [op |-> "eof"]

map(p, f) == [op |-> "map", p |-> p, f |-> f]

alt(ps) == [op |-> "alt", ps |-> ps]

tuple(ps) == [op |-> "tuple", ps |-> ps]

delimited(a, b, c) == [op |-> "delimited", ps |-> <<a, b, c>>]

separated_list0(sep, f) == [op |-> "separated_list0", sep |-> sep, f |-> f]

\* the loop of separated_list0 after its first element, res collected so far
separated_loop(sep, f, res) ==
    [op |-> "separated_loop", sep |-> sep, f |-> f, res |-> res]

\* a call of a named function of main.rs
call(name) == [op |-> "call", name |-> name]

\* a ws that skips the whitespace before inner only
ws_leading(inner) == delimited(multispace0, inner, tag(<<>>))

\* fn ws(inner)
ws(inner) == delimited(multispace0, inner, multispace0)

----------------------------------------------------------------------------
(* The closures handed to map *)

\* the members with the key of a later member dropped
RECURSIVE MergeKeys(_)
MergeKeys(ms) ==
    IF ms = <<>> THEN <<>>
    ELSE LET rest == MergeKeys(Tail(ms))
         IN  IF \E j \in 1..Len(rest) : rest[j][1] = Head(ms)[1] THEN rest
             ELSE <<Head(ms)>> \o rest

\* a closure that collects the members into a map, one entry for each key
ObjectOf_merged(v) ==
    Object(MergeKeys(<<>> \o [i \in 1..Len(v) |-> <<v[i][1], v[i][3]>>]))

\* |v| Json::Object(v.into_iter().map(|(k, _, v)| (k, v)).collect())
ObjectOf(v) == Object([i \in 1..Len(v) |-> <<v[i][1], v[i][3]>>])

\* |s: &str| Json::Number(s.parse().unwrap())
NumberOf(s) ==
    LET r == parse_u64(s)
    IN  IF r.ok THEN [panic |-> FALSE, val |-> Number(r.n)]
        ELSE [panic |-> TRUE, val |-> NoVal]

Apply(f, o) ==
    CASE f = "null"   -> [panic |-> FALSE, val |-> Null]
      [] f = "true"   -> [panic |-> FALSE, val |-> Bool(TRUE)]
      [] f = "false"  -> [panic |-> FALSE, val |-> Bool(FALSE)]
      [] f = "number" -> NumberOf(o)
      [] f = "into"   -> [panic |-> FALSE, val |-> o]
      [] f = "String" -> [panic |-> FALSE, val |-> String(o)]
      [] f = "Array"  -> [panic |-> FALSE, val |-> Array(o)]
      [] f = "Object" -> [panic |-> FALSE, val |-> ObjectOf(o)]
      [] f = "id"     -> [panic |-> FALSE, val |-> o]
      [] f = "first"  -> [panic |-> FALSE, val |-> o[1]]

----------------------------------------------------------------------------
(* The functions of main.rs *)

json_null == map(tag(<<"n", "u", "l", "l">>), "null")

json_true == map(tag(<<"t", "r", "u", "e">>), "true")

json_false == map(tag(<<"f", "a", "l", "s", "e">>), "false")

json_bool == alt(<<json_true, json_false>>)

json_number == map(digit1, "number")

\* a string_literal that skips whitespace inside the quotes
string_literal_trimmed ==
    delimited(tag(<<QUOTE>>), ws(map(take_till(QUOTE), "into")),
              tag(<<QUOTE>>))

string_literal ==
    delimited(tag(<<QUOTE>>), map(take_till(QUOTE), "into"), tag(<<QUOTE>>))

json_string == map(call("string_literal"), "String")

\* a json_array delimited by the braces of json_object
json_array_braces ==
    map(delimited(ws(tag(<<"{">>)),
                  separated_list0(ws(tag(<<",">>)), call("json_value")),
                  ws(tag(<<"}">>))),
        "Array")

json_array ==
    map(delimited(ws(tag(<<"[">>)),
                  separated_list0(ws(tag(<<",">>)), call("json_value")),
                  ws(tag(<<"]">>))),
        "Array")

json_object ==
    map(delimited(ws(tag(<<"{">>)),
                  separated_list0(ws(tag(<<",">>)),
                                  tuple(<<call("string_literal"),
                                          ws(tag(<<":">>)),
                                          call("json_value")>>)),
                  ws(tag(<<"}">>))),
        "Object")

\* the alternatives of json_value, in the order they are tried
Alternatives ==
    <<"json_null", "json_bool", "json_number",
      "json_string", "json_array", "json_object">>

json_value_in(order) ==
    map(alt([i \in 1..Len(order) |-> call(order[i])]), "id")

\* a json_value that tries json_object before json_array
json_value_swapped ==
    json_value_in(<<"json_null", "json_bool", "json_number",
                    "json_string", "json_object", "json_array">>)

json_value == json_value_in(Alternatives)

\* a json that does not require the end of the text
json_no_eof == map(tuple(<<call("json_value")>>), "first")

json == map(tuple(<<call("json_value"), eof>>), "first")

Body(name) ==
    CASE name = "json_null"      -> json_null
      [] name = "json_bool"      -> json_bool
      [] name = "json_number"    -> json_number
      [] name = "string_literal" -> string_literal
      [] name = "json_string"    -> json_string
      [] name = "json_array"     -> json_array
      [] name = "json_object"    -> json_object
      [] name = "json_value"     -> json_value
      [] name = "json"           -> json

----------------------------------------------------------------------------
(* Applying a parser expression p to the text i.  `from` is the call of    *)
(* the named function whose body p belongs to: <<name, Len(its input)>>.   *)

\* the logs of the first n results of rs, one after the other
RECURSIVE Logs(_, _)
Logs(rs, n) == IF n = 0 THEN <<>> ELSE Logs(rs, n - 1) \o rs[n].log

\* the error alt is left with when the first n alternatives have failed
RECURSIVE ErrorOfAll(_, _)
ErrorOfAll(rs, n) ==
    IF n = 1 THEN rs[1] ELSE ErrorOr(ErrorOfAll(rs, n - 1), rs[n])

RECURSIVE Run(_, _, _)
Run(p, i, from) ==
    CASE p.op = "tag" ->
           IF Len(i) >= Len(p.lit) /\ Take(i, Len(p.lit)) = p.lit
           THEN Ok(Drop(i, Len(p.lit)), p.lit, <<>>)
           ELSE Error(i, "Tag", <<>>)
      [] p.op = "take_till" ->
           LET n == SpanUntil(i, p.stop)
           IN  Ok(Drop(i, n), Take(i, n), <<>>)
      [] p.op = "digit1" ->
           LET n == SpanDigits(i)
           IN  IF n = 0 THEN Error(i, "Digit", <<>>)
               ELSE Ok(Drop(i, n), Take(i, n), <<>>)
      [] p.op = "multispace0" ->
           LET n == SpanSpace(i)
           IN  Ok(Drop(i, n), Take(i, n), <<>>)
      [] p.op = "eof" ->
           IF i = <<>> THEN Ok(i, i, <<>>) ELSE Error(i, "Eof", <<>>)
      [] p.op = "map" ->
           LET r == Run(p.p, i, from)
           IN  IF r.st # "Ok" THEN r
               ELSE LET v == Apply(p.f, r.val)
                    IN  IF v.panic THEN Panic(r.log)
                        ELSE [r EXCEPT !.val = v.val]
      [] p.op = "alt" ->
           \* the alternatives are pure, so the result of each is computed
           \* here; the ones after the first that does not fail with Error
           \* are not called and leave no trace
           LET rs   == <<>> \o [k \in 1..Len(p.ps) |-> Run(p.ps[k], i, from)]
               hits == {k \in 1..Len(rs) : rs[k].st # "Error"}
               hit  == CHOOSE k \in hits : \A j \in hits : k <= j
           IN  IF hits = {}
               THEN [ErrorOfAll(rs, Len(rs)) EXCEPT !.log = Logs(rs, Len(rs))]
               ELSE [rs[hit] EXCEPT !.log = Logs(rs, hit)]
      [] p.op \in {"tuple", "delimited"} ->
           \* tuples of one to three parsers
           LET n  == Len(p.ps)
               r1 == Run(p.ps[1], i, from)
               r2 == Run(p.ps[2], r1.rest, from)
               r3 == Run(p.ps[3], r2.rest, from)
           IN  IF r1.st # "Ok" THEN r1
               ELSE IF n = 1 THEN [r1 EXCEPT !.val = <<r1.val>>]
               ELSE IF r2.st # "Ok" THEN [r2 EXCEPT !.log = r1.log \o r2.log]
               ELSE IF n = 2
               THEN Ok(r2.rest, <<r1.val, r2.val>>, r1.log \o r2.log)
               ELSE IF r3.st # "Ok"
               THEN [r3 EXCEPT !.log = r1.log \o r2.log \o r3.log]
               ELSE Ok(r3.rest,
                       IF p.op = "delimited" THEN r2.val
                       ELSE <<r1.val, r2.val, r3.val>>,
                       r1.log \o r2.log \o r3.log)
      [] p.op = "separated_list0" ->
           LET r == Run(p.f, i, from)
               l == Run(separated_loop(p.sep, p.f, <<r.val>>), r.rest, from)
           IN  IF r.st = "Error" THEN Ok(i, <<>>, r.log)
               ELSE IF r.st = "Panic" THEN r
               ELSE [l EXCEPT !.log = r.log \o l.log]
      [] p.op = "separated_loop" ->
           LET s == Run(p.sep, i, from)
               e == Run(p.f, s.rest, from)
               l == Run(separated_loop(p.sep, p.f, Append(p.res, e.val)),
                        e.rest, from)
           IN  IF s.st = "Error" THEN Ok(i, p.res, s.log)
               ELSE IF s.st = "Panic" THEN s
               ELSE IF Len(s.rest) = Len(i)
               THEN Error(s.rest, "SeparatedList", s.log)
               ELSE IF e.st = "Error" THEN Ok(i, p.res, s.log \o e.log)
               ELSE IF e.st = "Panic" THEN [e EXCEPT !.log = s.log \o e.log]
               ELSE [l EXCEPT !.log = s.log \o e.log \o l.log]
      [] p.op = "call" ->
           LET me == <<p.name, Len(i)>>
               r  == Run(Body(p.name), i, me)
           IN  [r EXCEPT !.log = <<<<from, me>>>> \o r.log]

\* name(text), called by the tests or by read_json_file
parse(name, text) == Run(call(name), text, <<"caller", Len(text)>>)

----------------------------------------------------------------------------
(* The texts the parser is run on *)

MaxTokens == 3

MaxNodes == 3

MaxSpace == 2

NULL == <<"n", "u", "l", "l">>

TRUE_ == <<"t", "r", "u", "e">>

Tokens ==
    {NULL, TRUE_, <<"1">>, <<QUOTE>>, <<"[">>, <<"]">>, <<"{">>, <<"}">>,
     <<",">>, <<" ">>}

\* the texts made of at most n tokens
RECURSIVE TokenTexts(_)
TokenTexts(n) ==
    IF n = 0 THEN {<<>>}
    ELSE LET shorter == TokenTexts(n - 1)
         IN  shorter \cup {t \o x : t \in Tokens, x \in shorter}

Leaves == {Bool(FALSE), String(<<"a">>)}

\* the keys of an object of n members: all equal, or alternating
KeyPatterns(n) ==
    {[i \in 1..n |-> <<"a">>],
     [i \in 1..n |-> IF i % 2 = 1 THEN <<"a">> ELSE <<"b">>]}

RECURSIVE Trees(_), Forests(_)
\* the values of exactly n nodes
Trees(n) ==
    IF n = 1 THEN Leaves \cup {Array(<<>>), Object(<<>>)}
    ELSE {Array(f) : f \in Forests(n - 1)}
         \cup UNION {{Object([i \in 1..Len(f) |-> <<ks[i], f[i]>>]) :
                        ks \in KeyPatterns(Len(f))} : f \in Forests(n - 1)}

\* the sequences of values of n nodes in all
Forests(n) ==
    IF n = 0 THEN {<<>>}
    ELSE UNION {{<<t>> \o f : t \in Trees(k), f \in Forests(n - k)} :
                  k \in 1..n}

\* the values of at most n nodes
TreesUpTo(n) == UNION {Trees(k) : k \in 1..n}

\* the styles the generated values are written in; the texts of the tests
\* are written in the style "pretty" of the source: `, ` and `: `
Styles == {"compact", "padded"}

\* a punctuation character with the whitespace the style puts around it
Punct(c, style) ==
    CASE style = "compact" -> <<c>>
      [] style = "pretty"  -> IF c \in {",", ":"} THEN <<c, " ">> ELSE <<c>>
      [] style = "padded"  -> <<" ", c, "\n", "\t">>

RECURSIVE Render(_, _), RenderItems(_, _), RenderMembers(_, _)
\* the text of a value
Render(v, style) ==
    CASE v.t = "Null"   -> NULL
      [] v.t = "Bool"   -> IF v.b THEN TRUE_ ELSE <<"f", "a", "l", "s", "e">>
      [] v.t = "Number" -> v.n
      [] v.t = "String" -> <<QUOTE>> \o v.s \o <<QUOTE>>
      [] v.t = "Array"  ->
           Punct("[", style) \o RenderItems(v.items, style)
                             \o Punct("]", style)
      [] v.t = "Object" ->
           Punct("{", style) \o RenderMembers(v.members, style)
                             \o Punct("}", style)

RenderItems(items, style) ==
    IF items = <<>> THEN <<>>
    ELSE Render(Head(items), style)
         \o (IF Len(items) = 1 THEN <<>>
             ELSE Punct(",", style) \o RenderItems(Tail(items), style))

RenderMembers(members, style) ==
    IF members = <<>> THEN <<>>
    ELSE <<QUOTE>> \o Head(members)[1] \o <<QUOTE>> \o Punct(":", style)
         \o Render(Head(members)[2], style)
         \o (IF Len(members) = 1 THEN <<>>
             ELSE Punct(",", style) \o RenderMembers(Tail(members), style))

\* the index of the last character of s that is in cs, 0 when there is none
RECURSIVE LastIndex(_, _)
LastIndex(s, cs) ==
    IF s = <<>> THEN 0
    ELSE IF s[Len(s)] \in cs THEN Len(s)
    ELSE LastIndex(Take(s, Len(s) - 1), cs)

RemoveAt(s, k) == Take(s, k - 1) \o Drop(s, k)

InsertBefore(s, k, c) == Take(s, k - 1) \o <<c>> \o Drop(s, k - 1)

Mutations ==
    {"none", "unterminated", "unclosed", "trailing_comma", "no_colon"}

\* the characters a mutation looks for in the text
Target(m) ==
    CASE m = "none"           -> {}
      [] m = "unterminated"   -> {QUOTE}
      [] m = "unclosed"       -> {"]", "}"}
      [] m = "trailing_comma" -> {"]", "}"}
      [] m = "no_colon"       -> {":"}

Applicable(m, text) == m = "none" \/ LastIndex(text, Target(m)) > 0

\* the text damaged by a mutation: the last quote, the last closing bracket
\* or the last colon removed, or a comma put before the last closing bracket
Mutate(m, text) ==
    LET k == LastIndex(text, Target(m))
    IN  CASE m = "none"           -> text
          [] m = "trailing_comma" -> InsertBefore(text, k, ",")
          [] OTHER                -> RemoveAt(text, k)

\* digit runs around the largest u64
Replace(s, k, c) == [s EXCEPT ![k] = c]

DigitRuns ==
    {U64Max, Take(U64Max, 19), U64Max \o <<"0">>,
     <<"0", "0">> \o U64Max, <<"0">> \o Replace(U64Max, 20, "6"),
     [i \in 1..20 |-> "9"], [i \in 1..20 |-> IF i = 1 THEN "1" ELSE "0"],
     [i \in 1..20 |-> IF i = 1 THEN "2" ELSE "0"],
     [i \in 1..25 |-> "0"] \o <<"7">>}
    \cup {Replace(U64Max, k, Digits[DigitVal(U64Max[k]) + 2]) :
            k \in {j \in 1..20 : U64Max[j] # "9"}}
    \cup {Replace(U64Max, k, Digits[DigitVal(U64Max[k])]) :
            k \in {j \in 1..20 : U64Max[j] # "0"}}

Prefixes ==
    {<<>>, <<"[">>, <<"[", "1", ",">>, <<"{", QUOTE, "a", QUOTE, ":">>,
     <<" ">>}

Suffixes == {<<>>, <<"]">>, <<"}">>, <<",">>, <<"x">>}

\* the values the tests of main.rs expect, written there as their texts
TestValues ==
    {Null, Bool(TRUE), Bool(FALSE), Number(<<"1">>),
     Number(<<"1", "2", "3">>), String(<<>>), String(<<"a">>),
     Array(<<>>), Array(<<Null>>),
     Array(<<Null, Bool(TRUE), Number(<<"1">>), String(<<"a">>)>>),
     Object(<<>>),
     Object(<<<<<<"k", "e", "y">>, String(<<"v", "a", "l", "u", "e">>)>>>>),
     Object(<<<<<<"o", "u", "t", "e", "r">>,
                Object(<<<<<<"i", "n", "n", "e", "r">>,
                           String(<<"v", "a", "l", "u", "e">>)>>>>)>>>>)}

NoGen == [kind |-> "tokens", tree |-> NoVal, style |-> "", mut |-> ""]

----------------------------------------------------------------------------
(* The program: the tests call each recognizer on a text, read_json_file   *)
(* calls json on the text of the file and panics on a failure, main prints *)
(* the value.  The result of every call is kept in `out`.                  *)

Recognizers == {"json_null", "json_bool", "json_number", "json_string",
                "json_array", "json_object", "json_value", "json"}

Pending ==
    [st |-> "Pending", rest |-> <<>>, val |-> NoVal, code |-> "", log |-> <<>>]

InitTokens ==
    /\ input \in TokenTexts(MaxTokens)
    /\ gen = NoGen

InitTrees ==
    \E v \in TreesUpTo(MaxNodes), style \in Styles, m \in Mutations :
       LET text == Render(v, style)
       IN  /\ Applicable(m, text)
           /\ gen = [kind |-> "tree", tree |-> v, style |-> style, mut |-> m]
           /\ input = Mutate(m, text)

InitTests ==
    \E v \in TestValues :
       /\ gen = [kind |-> "tree", tree |-> v, style |-> "pretty",
                 mut |-> "none"]
       /\ input = Render(v, "pretty")

InitNumbers ==
    \E d \in DigitRuns, a \in Prefixes, b \in Suffixes :
       /\ gen = [kind |-> "number", tree |-> NoVal, style |-> "", mut |-> ""]
       /\ input = a \o d \o b

Init ==
    /\ InitTokens \/ InitTrees \/ InitTests \/ InitNumbers
    /\ pc = "json_null"
    /\ out = [f \in Recognizers |-> Pending]

Test(name, next) ==
    /\ pc = name
    /\ out' = [out EXCEPT ![name] = parse(name, input)]
    /\ pc' = next
    /\ UNCHANGED <<gen, input>>

test_json_null == Test("json_null", "json_bool")

test_json_bool == Test("json_bool", "json_number")

test_json_number == Test("json_number", "json_string")

test_json_string == Test("json_string", "json_array")

test_json_array == Test("json_array", "json_object")

test_json_object == Test("json_object", "json_value")

\* the call json makes of json_value on the whole text
call_json_value == Test("json_value", "json")

read_json_file ==
    /\ pc = "json"
    /\ out' = [out EXCEPT !.json = parse("json", input)]
    /\ pc' = IF out'.json.st = "Ok" THEN "print" ELSE "panicked"
    /\ UNCHANGED <<gen, input>>

main ==
    /\ pc = "print"
    /\ pc' = "printed"
    /\ UNCHANGED <<gen, input, out>>

Next ==
    \/ test_json_null
    \/ test_json_bool
    \/ test_json_number
    \/ test_json_string
    \/ test_json_array
    \/ test_json_object
    \/ call_json_value
    \/ read_json_file
    \/ main

Spec == Init /\ [][Next]_vars

Done == pc \in {"printed", "panicked"}

----------------------------------------------------------------------------
(* Vocabulary of the properties *)

Range(s) == {s[k] : k \in 1..Len(s)}

\* what the caller of a recognizer sees of a result
Outcome(r) == <<r.st, r.rest, r.val, r.code>>

\* the recognizer parsed the whole text
Complete(r) == r.st = "Ok" /\ r.rest = <<>>

Composite(v) == v.t \in {"Array", "Object"}

\* the text without its leading whitespace
Trimmed(text) == Drop(text, SpanSpace(text))

NonSpace == {"n", "x", "1", QUOTE, "[", "]", "{", "}", ",", ":"}

\* each whitespace character alone, and the mixed runs of two to n of them
SpaceRuns(n) ==
    LET cycle == <<" ", "\t", "\r", "\n">>
    IN  {<<c>> : c \in Whitespace}
        \cup {[i \in 1..k |-> cycle[(i % 4) + 1]] : k \in 2..n}

RECURSIVE Count(_, _)
Count(s, c) ==
    IF s = <<>> THEN 0
    ELSE (IF Head(s) = c THEN 1 ELSE 0) + Count(Tail(s), c)

\* the text outside string literals, without whitespace; the quotes stay
RECURSIVE Outside(_, _)
Outside(s, inString) ==
    IF s = <<>> THEN <<>>
    ELSE IF Head(s) = QUOTE
    THEN <<QUOTE>> \o Outside(Tail(s), ~inString)
    ELSE IF inString \/ IsSpace(Head(s)) THEN Outside(Tail(s), inString)
    ELSE <<Head(s)>> \o Outside(Tail(s), inString)

\* the text without the whitespace outside string literals
RECURSIVE Squeeze(_, _)
Squeeze(s, inString) ==
    IF s = <<>> THEN <<>>
    ELSE IF Head(s) = QUOTE
    THEN <<QUOTE>> \o Squeeze(Tail(s), ~inString)
    ELSE IF ~inString /\ IsSpace(Head(s)) THEN Squeeze(Tail(s), inString)
    ELSE <<Head(s)>> \o Squeeze(Tail(s), inString)

\* an opening quote with no closing quote before the end of the text
Unterminated(text) == Count(text, QUOTE) % 2 = 1

\* more [ than ], or more { than }, outside the string literals
Unclosed(text) ==
    LET o == Outside(text, FALSE)
    IN  /\ ~Unterminated(text)
        /\ \/ Count(o, "[") > Count(o, "]")
           \/ Count(o, "{") > Count(o, "}")

\* a comma directly before a closing bracket, outside the string literals
TrailingComma(text) ==
    LET o == Outside(text, FALSE)
    IN  /\ ~Unterminated(text)
        /\ \E k \in 1..(Len(o) - 1) : o[k] = "," /\ o[k + 1] \in {"]", "}"}

\* the text of a value from which the colon of a member was removed
MissingColon == gen.kind = "tree" /\ gen.mut = "no_colon"

Malformed ==
    \/ Unterminated(input)
    \/ Unclosed(input)
    \/ TrailingComma(input)
    \/ MissingColon

\* the part of the text a successful result consumed
Consumed(r) == Take(input, Len(input) - Len(r.rest))

\* other orders to try the six alternatives in: the rotations of the order
\* of json_value, in which each alternative comes first once and last once
Rotated(k) == [i \in 1..6 |-> Alternatives[((i + k - 1) % 6) + 1]]

Orders == {Rotated(k) : k \in 1..5}

Six == Range(Alternatives)

\* json_value with its alternatives tried in the given order
ValueIn(order, text) ==
    Run(json_value_in(order), text, <<"json_value", Len(text)>>)

\* the recognizer matched its lead token and then failed
FailedInBody(name, lead) ==
    /\ out[name].st = "Error"
    /\ Trimmed(input) # <<>>
    /\ Head(Trimmed(input)) = lead
    /\ name = "json_string" => Head(input) = lead

BodyFailure ==
    \/ FailedInBody("json_string", QUOTE)
    \/ FailedInBody("json_array", "[")
    \/ FailedInBody("json_object", "{")

\* json_value called the alternative on the whole text
Tried(name) ==
    <<<<"json_value", Len(input)>>, <<name, Len(input)>>>>
        \in Range(out.json_value.log)

----------------------------------------------------------------------------
(* C1: trailing data *)

\* C1, as stated: a text that json_value parses completely, followed by any
\* one non-whitespace character, fails the document-level parse.
C1_AnyTrailingCharacterFails ==
    Done /\ Complete(out.json_value) =>
        \A c \in NonSpace : parse("json", input \o <<c>>).st = "Error"

\* C1, amended: a text that json_value parses completely, followed by one
\* non-whitespace character, fails the document-level parse, unless the
\* value is a number and the character a digit, which extends the number.
C1_TrailingData ==
    Done /\ Complete(out.json_value) =>
        \A c \in NonSpace :
           ~(out.json_value.val.t = "Number" /\ IsDigit(c)) =>
               parse("json", input \o <<c>>).st = "Error"

\* a complete array whose text followed by `x` the value-level parse accepts
\* and the document-level parse refuses
C1_Witness ==
    /\ Done
    /\ Complete(out.json_value)
    /\ out.json_value.val.t = "Array"
    /\ parse("json_value", input \o <<"x">>).st = "Ok"
    /\ parse("json", input \o <<"x">>).st = "Error"

----------------------------------------------------------------------------
(* C2: oversized number literal *)

\* the digits the text starts with
LeadingDigits(text) == Take(text, SpanDigits(text))

Oversized(text) ==
    LeadingDigits(text) # <<>> /\ ~FitsU64(LeadingDigits(text))

\* C2: on a run of digits whose value does not fit a u64, json_number,
\* json_value and json return a failure: not a Number, and not a panic.
C2_OversizedNumberFails ==
    Done /\ Oversized(input) =>
        /\ out.json_number.st = "Error"
        /\ out.json_value.st = "Error"
        /\ out.json.st = "Error"

----------------------------------------------------------------------------
(* C3: no partial tree on malformed input *)

\* C3: on a text with an unterminated string, an unclosed bracket, a
\* trailing comma or a member without its colon, json returns a failure.
C3_MalformedFails == Done /\ Malformed => out.json.st = "Error"

----------------------------------------------------------------------------
(* C4: order and multiplicity of the entries of arrays and objects *)

\* C4: the text of an array or object holding any values, members with
\* equal keys included, parses to exactly that array or object; and the
\* text json_array or json_object accepts is, whitespace between the tokens
\* aside, the text of the value returned: one entry for each element or
\* member of the source, nested ones included, in the order of the source.
C4_OrderAndMultiplicity ==
    Done =>
        /\ gen.kind = "tree" /\ gen.mut = "none" /\ gen.tree.t = "Array" =>
               Complete(out.json_array) /\ out.json_array.val = gen.tree
        /\ gen.kind = "tree" /\ gen.mut = "none" /\ gen.tree.t = "Object" =>
               Complete(out.json_object) /\ out.json_object.val = gen.tree
        /\ \A f \in {"json_array", "json_object"} :
              out[f].st = "Ok" /\ "0" \notin Range(input) =>
                  Squeeze(Consumed(out[f]), FALSE)
                      = Render(out[f].val, "compact")

\* an object of two members with the same key, both kept
C4_Witness ==
    /\ Done
    /\ out.json_object.st = "Ok"
    /\ Len(out.json_object.val.members) = 2
    /\ out.json_object.val.members[1][1] = out.json_object.val.members[2][1]
    /\ out.json_object.val.members[1][2] # out.json_object.val.members[2][2]

----------------------------------------------------------------------------
(* C5: strings are taken verbatim *)

Quoted(s) == <<QUOTE>> \o s \o <<QUOTE>>

\* C5: for a text s without a quote, json_string of "s" is String(s) with
\* nothing left over, and leaves what follows the closing quote; "s" as the
\* element of an array or as the key and the value of a member gives s too.
C5_StringExact ==
    Done /\ QUOTE \notin Range(input) =>
        /\ Outcome(parse("json_string", Quoted(input)))
               = <<"Ok", <<>>, String(input), "">>
        /\ Outcome(parse("json_string", Quoted(input) \o <<"x", " ">>))
               = <<"Ok", <<"x", " ">>, String(input), "">>
        /\ Outcome(parse("json_array", <<"[">> \o Quoted(input) \o <<"]">>))
               = <<"Ok", <<>>, Array(<<String(input)>>), "">>
        /\ Outcome(parse("json_object",
                         <<"{">> \o Quoted(input) \o <<":">>
                                 \o Quoted(input) \o <<"}">>))
               = <<"Ok", <<>>, Object(<<<<input, String(input)>>>>), "">>

\* a string that starts with a space and holds brackets
C5_Witness ==
    /\ Done
    /\ QUOTE \notin Range(input)
    /\ Len(input) >= 3
    /\ input[1] = " "
    /\ "]" \in Range(input)
    /\ parse("json_string", Quoted(input)).val = String(input)

----------------------------------------------------------------------------
(* C6: the failure json_value reports *)

\* what the caller sees of a failure: where it was raised and its kind
Failure(r) == <<r.st, r.rest, r.code>>

----------------------------------------------------------------------------
(* C7: what becomes of the failure of a recognizer that matched its lead *)

\* the recognizer that failed in its body
Culprit ==
    CASE FailedInBody("json_string", QUOTE) -> "json_string"
      [] FailedInBody("json_array", "[")    -> "json_array"
      [] FailedInBody("json_object", "{")   -> "json_object"

\* the alternatives json_value has after the given one
Later(name) ==
    {Alternatives[k] : k \in {j \in 1..6 : \E m \in 1..(j - 1) :
                                                Alternatives[m] = name}}

----------------------------------------------------------------------------
(* C8: whitespace around the document *)

\* C8: for a text json parses to a value, whitespace put before or after
\* the text leaves the value unchanged when it is an array or an object,
\* and makes json fail when it is null, a boolean, a number or a string.
C8_EdgeWhitespace ==
    Done /\ out.json.st = "Ok" =>
        \A w \in SpaceRuns(MaxSpace) :
           LET before == parse("json", w \o input)
               after  == parse("json", input \o w)
           IN  IF Composite(out.json.val)
               THEN /\ Outcome(before) = Outcome(out.json)
                    /\ Outcome(after) = Outcome(out.json)
               ELSE /\ before.st = "Error"
                    /\ after.st = "Error"

\* an object with a member, accepted with a newline before and after it
C8_Witness ==
    /\ Done
    /\ out.json.st = "Ok"
    /\ out.json.val.t = "Object"
    /\ Len(out.json.val.members) >= 1
    /\ parse("json", <<"\n">> \o input \o <<"\n">>).val = out.json.val

----------------------------------------------------------------------------
(* C9: the order of the alternatives *)

\* the alternatives that succeed on the text
Succeeding == {f \in Six : out[f].st = "Ok"}

\* the first alternative of json_value that succeeds
FirstSucceeding ==
    Alternatives[CHOOSE k \in 1..6 :
                    /\ Alternatives[k] \in Succeeding
                    /\ \A j \in 1..(k - 1) : Alternatives[j] \notin Succeeding]

\* C9, as stated: at most one of the six recognizers succeeds on a text,
\* the result of json_value, a failure included, is the same in any other
\* order of the alternatives, and is that of the first one that succeeds.
C9_OrderIrrelevant ==
    Done =>
        /\ Cardinality(Succeeding) <= 1
        /\ \A order \in Orders :
              Outcome(ValueIn(order, input)) = Outcome(out.json_value)
        /\ Succeeding # {} =>
               Outcome(out.json_value) = Outcome(out[FirstSucceeding])

\* C9, amended: at most one of the six recognizers succeeds on a text;
\* whether json_value succeeds, and the value and the remaining text when
\* it does, are the same in any other order of the alternatives, and a
\* success is that of the first alternative that succeeds.  (The failure
\* is that of the alternative tried last, and changes with the order.)
C9_SuccessOrderIrrelevant ==
    Done =>
        /\ Cardinality(Succeeding) <= 1
        /\ \A order \in Orders :
              LET r == ValueIn(order, input)
              IN  /\ r.st = out.json_value.st
                  /\ r.st = "Ok" => Outcome(r) = Outcome(out.json_value)
        /\ Succeeding # {} =>
               Outcome(out.json_value) = Outcome(out[FirstSucceeding])

\* an object, which the alternative tried last recognizes, parsed the same
\* when json_object is tried first
C9_Witness ==
    /\ Done
    /\ Succeeding = {"json_object"}
    /\ Len(out.json_value.val.members) >= 1
    /\ Outcome(ValueIn(Rotated(5), input)) = Outcome(out.json_value)

----------------------------------------------------------------------------
(* C10: termination by strict progress *)

\* the calls of json_value made by an array or an object
ValueCalls(log) ==
    {k \in 1..Len(log) : /\ log[k][1][1] \in {"json_array", "json_object"}
                         /\ log[k][2][1] = "json_value"}

\* each call of json_value made by an array or an object is given less text
\* than the array or object was, and less than the call before it made by
\* the same array or object
Progress(log) ==
    \A k \in ValueCalls(log) :
       /\ log[k][2][2] < log[k][1][2]
       /\ \A j \in ValueCalls(log) :
             j < k /\ log[j][1] = log[k][1] => log[k][2][2] < log[j][2][2]

\* C10: json finishes on every text with a value or a failure, and the
\* calls of json_value made on the way are each given strictly less text.
C10_FinishesByProgress ==
    Done => /\ out.json.st \in {"Ok", "Error"}
            /\ Progress(out.json.log)

====
